---- MODULE Spec2Model ----
(***************************************************************************)
(* Certificate lifecycle engine of actix-web-lets-encrypt (src/src/lib.rs): *)
(* the builder-style configuration of LetsEncrypt (ssl_directory,          *)
(* add_cert), the path resolution of CertBuilder (update_path), the expiry *)
(* check (needs_building), the ACME issuance sequence (build_cert) and the *)
(* actor's start-up pass and periodic timers (Actor::started).             *)
(*                                                                         *)
(* Time is counted in abstract units; Durations are natural numbers.       *)
(* A path is a record [abs, comps]: abs says whether the path has a root,  *)
(* comps is the sequence of its components; a component is a sequence of   *)
(* string pieces (format!'s output is the sequence of the pieces it        *)
(* concatenates).  An Option is a sequence of length 0 (None) or 1 (Some). *)
(***************************************************************************)
EXTENDS Integers, Sequences, FiniteSets, TLC

\* ------------------------------------------------------------------ bounds
MaxJobs == 2        \* add_cert calls per engine
MaxNow == 3         \* the clock runs from 0 to MaxNow
MaxReloads == 1     \* encryption_enabler_from_env calls per engine
IssuedValidity == 3 \* lifetime the CA gives a freshly signed certificate

\* ------------------------------------------------------------------- paths
AbsPath(cs) == [abs |-> TRUE, comps |-> cs]
RelPath(cs) == [abs |-> FALSE, comps |-> cs]

None == <<>>
Some(x) == <<x>>

\* std::path::PathBuf::join as update_path uses it: an absolute argument
\* replaces the base, a relative one is appended to it.
join(dir, file) ==
    IF file.abs THEN file
    ELSE [abs |-> dir.abs, comps |-> dir.comps \o file.comps]

\* Path::is_absolute
is_absolute(path) == path.abs

\* format!("{}_{}.pem", &domains[0], stem) as a relative one-component path
default_file(domains, stem) == RelPath(<< <<domains[1], "_", stem, ".pem">> >>)

\* update_path gone wrong: joins also an absolute explicit path's components
\* under the directory (the is_absolute short-circuit forgotten).
update_path_always_join(pathp, stem, ssl_dir, domains) ==
    IF pathp = None
    THEN Some(join(ssl_dir, default_file(domains, stem)))
    ELSE Some([abs |-> ssl_dir.abs, comps |-> ssl_dir.comps \o pathp[1].comps])

\* CertBuilder::update_path: the new value of *pathp
update_path(pathp, stem, ssl_dir, domains) ==
    IF pathp = None
    THEN Some(join(ssl_dir, default_file(domains, stem)))
    ELSE IF is_absolute(pathp[1])
         THEN Some(pathp[1])
         ELSE Some(join(ssl_dir, pathp[1]))

update_key_path(cert, ssl_dir) ==
    [cert EXCEPT !.key_path = update_path(cert.key_path, "key", ssl_dir, cert.domains)]

update_cert_path(cert, ssl_dir) ==
    [cert EXCEPT !.cert_path = update_path(cert.cert_path, "cert", ssl_dir, cert.domains)]

\* ------------------------------------------------------------ configuration
\* LetsEncrypt::default_ssl_directory: PathBuf::from("/ssl")
default_ssl_directory == AbsPath(<< <<"ssl">> >>)

\* LetsEncrypt::default_nonce_directory: PathBuf::from("/var/tmp/lets_encrypt")
default_nonce_directory == AbsPath(<< <<"var">>, <<"tmp">>, <<"lets_encrypt">> >>)

\* CertBuilder::new(addrs, domains) followed by the setters renew_within and
\* check_every; key_path and cert_path are None unless deserialized.
CertBuilder(addr, domains, email, production, renew, every, key_path, cert_path) ==
    [addrs |-> <<addr>>, domains |-> domains, email |-> email,
     production |-> production, renew_within |-> renew, check_every |-> every,
     key_path |-> key_path, cert_path |-> cert_path]

\* The jobs of the crate's example, with explicit paths of each kind.
example_prod ==
    CertBuilder(8089, <<"example.com">>, Some("ctm@example.com"), TRUE, 2, 1, None, None)
two_certs_prod ==
    CertBuilder(8090, <<"example.org", "example.net">>, Some("ctm@example.org"), TRUE, 1, 2,
                Some(RelPath(<< <<"own">>, <<"key.pem">> >>)),
                Some(AbsPath(<< <<"etc">>, <<"cert.pem">> >>)))

JobInputs == {example_prod, two_certs_prod}

\* The arguments of ssl_directory(): the relative "ssl" of the crate's example
DirInputs == {RelPath(<< <<"ssl">> >>)}

\* not_after of the certificates an earlier process run may have left on disk,
\* counted from the time the process starts (an expired one, a valid one)
NotAfters == {-1, 2}

\* The steps of build_cert that talk to the CA
CaSteps == {"directory", "account_registration", "authorization", "validate",
            "sign_certificate"}

\* The steps build_cert takes for each domain, in the loop's order
DomainSteps == {"authorization", "get_http_challenge", "save_key_authorization", "validate"}

VARIABLES
    ssl_directory,   \* LetsEncrypt.ssl_directory
    nonce_directory, \* LetsEncrypt.nonce_directory
    cert_builders,   \* LetsEncrypt.cert_builders
    given,           \* what add_cert was handed, in order: <<[cert, dir, again]>>,
                     \* again when the job had been through add_cert before
    reloads,         \* the number of encryption_enabler_from_env calls so far
    phase,           \* "config", "started" (start-up pass), "running", "panicked", "stopped"
    fs,              \* the files on disk: a set of [path, kind, not_after]
    nonce_files,     \* the domains whose key authorization is in nonce_directory
    now,             \* Utc::now()
    frames,          \* the build_cert calls in flight: <<[h, job, pc, dom]>>
    pass,            \* the index of the start-up loop of started
    needs_restart,   \* the local of started
    timers,          \* the run_interval timers: <<[job, every, next]>>
    stop_requested,  \* System::current().stop() has been called
    check,           \* the last evaluation of needs_building
    handler,         \* what the current or last handler did
    panic,           \* where the actor panicked, if it did
    route,           \* the NonceDir that register gave the challenge route, if any
    response,        \* the outcome of the last request to the challenge route
    listeners,       \* the TLS listeners of the server: <<[job, addr]>>
    attached         \* how attach_certificates_to ended, and the disk it saw

vars == <<ssl_directory, nonce_directory, cert_builders, given, reloads, phase, fs, nonce_files,
          now, frames, pass, needs_restart, timers, stop_requested, check, handler, panic,
          route, response, listeners, attached>>

serve_vars == <<route, response, listeners, attached>>

vars_but_serve == <<ssl_directory, nonce_directory, cert_builders, given, reloads, phase, fs,
                    nonce_files, now, frames, pass, needs_restart, timers, stop_requested,
                    check, handler, panic>>

NoResponse == [token |-> "", status |-> "none", body |-> None]

NotAttached == [status |-> "none", job |-> 0, jobs |-> 0, at |-> {}]

NoCheck == [job |-> 0, present |-> FALSE, parsed |-> FALSE, remaining |-> 0,
            window |-> 0, result |-> "none"]

\* What a handler (the start-up pass, or one timer callback) has done so far:
\* the job of the callback (0 for the start-up pass), how often each job's
\* needs_building ran, the jobs whose build_cert returned Ok, the paths read
\* and written, whether the CA was contacted, whether stop() was called and
\* whether it was called when it had been called before (restop), the steps
\* of build_cert it ran with their outcomes, and how the handler ended (""
\* while it runs).
NewHandler(h, job) ==
    [h |-> h, job |-> job, checked |-> [i \in DOMAIN cert_builders |-> 0], issued |-> {}, read |-> {}, written |-> {},
     ca |-> FALSE, stop |-> FALSE, restop |-> FALSE, steps |-> <<>>, result |-> ""]

NoPanic == [h |-> "none", job |-> 0, why |-> "none"]

\* LetsEncrypt::encryption_enabler
Init ==
    /\ ssl_directory = default_ssl_directory
    /\ nonce_directory = default_nonce_directory
    /\ cert_builders = <<>>
    /\ given = <<>>
    /\ reloads = 0
    /\ phase = "config"
    /\ fs = {}
    /\ nonce_files = {}
    /\ now = 0
    /\ frames = <<>>
    /\ pass = 0
    /\ needs_restart = FALSE
    /\ timers = <<>>
    /\ stop_requested = FALSE
    /\ check = NoCheck
    /\ handler = NewHandler("none", 0)
    /\ panic = NoPanic
    /\ route = None
    /\ response = NoResponse
    /\ listeners = <<>>
    /\ attached = NotAttached

run_vars == <<fs, nonce_files, now, frames, pass, needs_restart, timers, stop_requested,
              check, handler, panic>>

\* The job add_cert pushes: cert after update_key_path and update_cert_path
registered(cert, ssl_dir) == update_cert_path(update_key_path(cert, ssl_dir), ssl_dir)

\* LetsEncrypt::add_cert
add_cert(cert) ==
    /\ phase = "config"
    /\ Len(cert_builders) < MaxJobs
    /\ cert_builders' = Append(cert_builders, registered(cert, ssl_directory))
    /\ given' = Append(given, [cert |-> cert, dir |-> ssl_directory, again |-> FALSE])
    /\ UNCHANGED <<ssl_directory, nonce_directory, reloads, phase>>
    /\ UNCHANGED run_vars
    /\ UNCHANGED serve_vars

\* LetsEncrypt::ssl_directory
set_ssl_directory(path) ==
    /\ phase = "config"
    /\ ssl_directory' = path
    /\ UNCHANGED <<nonce_directory, cert_builders, given, reloads, phase>>
    /\ UNCHANGED run_vars
    /\ UNCHANGED serve_vars

\* LetsEncrypt::encryption_enabler_from_env: the deserialized engine's jobs
\* are taken out (split_off(0)) and handed to add_cert one by one.  The
\* configuration read is the present engine written out: its directories and
\* its jobs with the paths they hold.
encryption_enabler_from_env ==
    /\ phase = "config"
    /\ reloads < MaxReloads
    /\ cert_builders # <<>>
    /\ reloads' = reloads + 1
    /\ cert_builders' = [i \in DOMAIN cert_builders |->
                            registered(cert_builders[i], ssl_directory)]
    /\ given' = [i \in DOMAIN cert_builders |->
                    [cert |-> cert_builders[i], dir |-> ssl_directory, again |-> TRUE]]
    /\ UNCHANGED <<ssl_directory, nonce_directory, phase>>
    /\ UNCHANGED run_vars
    /\ UNCHANGED serve_vars

\* ---------------------------------------------------------------- the disk
exists(path) == \E f \in fs : f.path = path
content(path) == CHOOSE f \in fs : f.path = path
write(files, path, kind, not_after) ==
    {f \in files : f.path # path}
        \cup {[path |-> path, kind |-> kind, not_after |-> not_after]}

\* The files an earlier run of the process left at a registered job's paths:
\* what save_signed_certificate and save_private_key wrote then, or ("junk") a
\* certificate file that X509::from_pem cannot parse.
previous_run_files(i, kind, not_after) ==
    /\ phase = "config"
    /\ i \in DOMAIN cert_builders
    /\ LET cb == cert_builders[i]
           path == IF kind = "key" THEN cb.key_path[1] ELSE cb.cert_path[1]
       IN /\ ~exists(path)
          /\ fs' = write(fs, path, kind, IF kind = "cert" THEN not_after ELSE 0)
    /\ UNCHANGED <<ssl_directory, nonce_directory, cert_builders, given, reloads, phase, nonce_files,
                   now, frames, pass, needs_restart, timers, stop_requested, check,
                   handler, panic>>
    /\ UNCHANGED serve_vars

\* Time passes while the actor waits for its timers and while build_cert
\* blocks it in a call to the CA.
clock ==
    /\ \/ phase = "running" /\ frames = <<>>
       \/ \E k \in DOMAIN frames : frames[k].pc \in CaSteps
    /\ now < MaxNow
    /\ now' = now + 1
    /\ UNCHANGED <<ssl_directory, nonce_directory, cert_builders, given, reloads, phase, fs,
                   nonce_files, frames, pass, needs_restart, timers, stop_requested,
                   check, handler, panic>>
    /\ UNCHANGED serve_vars

\* ------------------------------------------------------------ CertBuilder
\* key_and_cert_present gone wrong: a certificate past its not_after does not
\* count as present.
key_and_cert_present_unexpired(cb) ==
    /\ exists(cb.key_path[1]) /\ exists(cb.cert_path[1])
    /\ content(cb.cert_path[1]).kind = "cert" => content(cb.cert_path[1]).not_after >= now

\* CertBuilder::key_and_cert_present
key_and_cert_present(cb) == exists(cb.key_path[1]) /\ exists(cb.cert_path[1])

\* The paths key_and_cert_present and needs_building look at: fs::metadata of
\* the key, of the certificate when the key is there (&&), and File::open of
\* the certificate when both are.
paths_read(cb) ==
    {cb.key_path[1]} \cup (IF exists(cb.key_path[1]) THEN {cb.cert_path[1]} ELSE {})

\* chrono::Duration::to_std: Err for a negative duration
to_std(d) == IF d < 0 THEN None ELSE Some(d)

\* needs_building gone wrong: a certificate that does not parse counts as due.
needs_building_junk_renews(cb) ==
    IF ~key_and_cert_present(cb) THEN "true"
    ELSE LET cert == content(cb.cert_path[1]) IN
         IF cert.kind # "cert" THEN "true"
         ELSE LET time_remaining == to_std(cert.not_after - now) IN
              IF time_remaining = None THEN "panic"
              ELSE IF time_remaining[1] < cb.renew_within THEN "true" ELSE "false"

\* CertBuilder::needs_building: "true", "false", or "panic" when an unwrap fails
needs_building(cb) ==
    IF ~key_and_cert_present(cb) THEN "true"
    ELSE LET cert == content(cb.cert_path[1]) IN
         IF cert.kind # "cert" THEN "panic"
         ELSE LET time_remaining == to_std(cert.not_after - now) IN
              IF time_remaining = None THEN "panic"
              ELSE IF time_remaining[1] < cb.renew_within THEN "true" ELSE "false"

\* The record of one evaluation of needs_building
Checked(i, cb) ==
    LET present == key_and_cert_present(cb)
        parsed == present /\ content(cb.cert_path[1]).kind = "cert"
    IN [job |-> i, present |-> present, parsed |-> parsed,
        remaining |-> IF parsed THEN content(cb.cert_path[1]).not_after - now ELSE 0,
        window |-> cb.renew_within, result |-> needs_building(cb)]


\* ------------------------------------------------------------- LetsEncrypt
\* ActorFree gone wrong: callbacks that do not wait for the running one.
ActorFreeAlways == TRUE

\* The actor runs one handler at a time: ctx.run_interval callbacks and
\* started are polled by the actor's own context, and build_cert blocks it.
ActorFree == frames = <<>>

\* NextFrame gone wrong: the certificate is signed after the first domain's
\* validation.
NextFrame_first_domain_only(fr, cb) ==
    CASE fr.pc = "directory" -> [fr EXCEPT !.pc = "account_registration"]
      [] fr.pc = "account_registration" ->
            IF Len(cb.domains) = 0 THEN [fr EXCEPT !.pc = "sign_certificate"]
            ELSE [fr EXCEPT !.pc = "authorization", !.dom = 1]
      [] fr.pc = "authorization" -> [fr EXCEPT !.pc = "get_http_challenge"]
      [] fr.pc = "get_http_challenge" -> [fr EXCEPT !.pc = "save_key_authorization"]
      [] fr.pc = "save_key_authorization" -> [fr EXCEPT !.pc = "validate"]
      [] fr.pc = "validate" -> [fr EXCEPT !.pc = "sign_certificate"]
      [] fr.pc = "sign_certificate" -> [fr EXCEPT !.pc = "save_signed_certificate"]
      [] fr.pc = "save_signed_certificate" -> [fr EXCEPT !.pc = "save_private_key"]
      [] OTHER -> fr

\* NextFrame gone wrong: validation is requested before the key authorization
\* is saved.
NextFrame_validate_first(fr, cb) ==
    CASE fr.pc = "directory" -> [fr EXCEPT !.pc = "account_registration"]
      [] fr.pc = "account_registration" ->
            IF Len(cb.domains) = 0 THEN [fr EXCEPT !.pc = "sign_certificate"]
            ELSE [fr EXCEPT !.pc = "authorization", !.dom = 1]
      [] fr.pc = "authorization" -> [fr EXCEPT !.pc = "get_http_challenge"]
      [] fr.pc = "get_http_challenge" -> [fr EXCEPT !.pc = "validate"]
      [] fr.pc = "validate" -> [fr EXCEPT !.pc = "save_key_authorization"]
      [] fr.pc = "save_key_authorization" ->
            IF fr.dom < Len(cb.domains)
            THEN [fr EXCEPT !.pc = "authorization", !.dom = fr.dom + 1]
            ELSE [fr EXCEPT !.pc = "sign_certificate"]
      [] fr.pc = "sign_certificate" -> [fr EXCEPT !.pc = "save_signed_certificate"]
      [] fr.pc = "save_signed_certificate" -> [fr EXCEPT !.pc = "save_private_key"]
      [] OTHER -> fr

\* The frame of build_cert after a step that returned Ok
NextFrame(fr, cb) ==
    CASE fr.pc = "directory" -> [fr EXCEPT !.pc = "account_registration"]
      [] fr.pc = "account_registration" ->
            IF Len(cb.domains) = 0 THEN [fr EXCEPT !.pc = "sign_certificate"]
            ELSE [fr EXCEPT !.pc = "authorization", !.dom = 1]
      [] fr.pc = "authorization" -> [fr EXCEPT !.pc = "get_http_challenge"]
      [] fr.pc = "get_http_challenge" -> [fr EXCEPT !.pc = "save_key_authorization"]
      [] fr.pc = "save_key_authorization" -> [fr EXCEPT !.pc = "validate"]
      [] fr.pc = "validate" ->
            IF fr.dom < Len(cb.domains)
            THEN [fr EXCEPT !.pc = "authorization", !.dom = fr.dom + 1]
            ELSE [fr EXCEPT !.pc = "sign_certificate"]
      [] fr.pc = "sign_certificate" -> [fr EXCEPT !.pc = "save_signed_certificate"]
      [] fr.pc = "save_signed_certificate" -> [fr EXCEPT !.pc = "save_private_key"]
      [] OTHER -> fr

Remove(seq, k) == [j \in 1..(Len(seq) - 1) |-> IF j < k THEN seq[j] ELSE seq[j + 1]]

\* Actor::start: the actor's context calls started
start ==
    /\ phase = "config"
    /\ phase' = "started"
    /\ pass' = 1
    /\ needs_restart' = FALSE
    /\ handler' = NewHandler("started", 0)
    /\ UNCHANGED <<ssl_directory, nonce_directory, cert_builders, given, reloads, fs, nonce_files,
                   now, frames, timers, stop_requested, check, panic>>
    /\ UNCHANGED serve_vars

\* skip_cert_built gone wrong: every job's cert_built is called, also
\* after needs_restart became true (| instead of ||).
skip_cert_built_never == FALSE

\* needs_restart || self.cert_built(..): cert_built is not called once
\* needs_restart is true
skip_cert_built == needs_restart

\* One iteration of the first loop of started, up to the call of build_cert:
\* needs_restart = needs_restart || self.cert_built(cert_builder)
started_loop ==
    /\ phase = "started"
    /\ ActorFree
    /\ pass <= Len(cert_builders)
    /\ LET cb == cert_builders[pass]
           r == needs_building(cb)
           hd == [handler EXCEPT !.checked[pass] = @ + 1,
                                 !.read = @ \cup paths_read(cb)]
       IN IF skip_cert_built
          THEN /\ pass' = pass + 1
               /\ UNCHANGED <<phase, frames, timers, check, handler, panic>>
          ELSE /\ check' = Checked(pass, cb)
               /\ phase' = IF r = "panic" THEN "panicked" ELSE phase
               /\ panic' = IF r = "panic"
                           THEN [h |-> "started", job |-> pass, why |-> "needs_building"]
                           ELSE panic
               /\ handler' = IF r = "panic" THEN [hd EXCEPT !.result = "panic"] ELSE hd
               /\ frames' = IF r = "true"
                            THEN Append(frames, [h |-> "started", job |-> pass,
                                                 pc |-> "directory", dom |-> 1])
                            ELSE frames
               /\ pass' = IF r = "false" THEN pass + 1 ELSE pass
               /\ timers' = IF r = "panic" THEN <<>> ELSE timers
    /\ UNCHANGED <<ssl_directory, nonce_directory, cert_builders, given, reloads, fs, nonce_files,
                   now, needs_restart, stop_requested>>
    /\ UNCHANGED serve_vars

\* stop gone wrong: a second call takes the request back.
stop_toggles(requested) == ~requested

\* actix::System::current().stop(): the stop request after the call, given
\* whether one was pending before
stop(requested) == TRUE

\* interval_of gone wrong: every job gets the first job's period.
interval_of_first(i) == cert_builders[1].check_every

\* The period of the timer started arms for job i
interval_of(i) == cert_builders[i].check_every

\* The end of started: stop the system, or arm one run_interval per job
started_end ==
    /\ phase = "started"
    /\ ActorFree
    /\ pass > Len(cert_builders)
    /\ phase' = "running"
    /\ IF needs_restart
       THEN /\ stop_requested' = stop(stop_requested)
            /\ handler' = [handler EXCEPT !.stop = TRUE, !.restop = stop_requested,
                                          !.result = "done"]
            /\ UNCHANGED timers
       ELSE /\ timers' = [i \in DOMAIN cert_builders |->
                            [job |-> i, every |-> interval_of(i),
                             next |-> now + interval_of(i)]]
            /\ handler' = [handler EXCEPT !.result = "done"]
            /\ UNCHANGED stop_requested
    /\ UNCHANGED <<ssl_directory, nonce_directory, cert_builders, given, reloads, fs, nonce_files,
                   now, frames, pass, needs_restart, check, panic>>
    /\ UNCHANGED serve_vars

\* captured gone wrong: every closure holds the first job.
captured_first(t) == 1

\* The job the closure of timer t holds: let cert_builder = cert_builder.clone()
captured(t) == timers[t].job

\* The callback of job timers[t].job's run_interval, up to the call of
\* build_cert: if act.cert_built(&cert_builder) { stop() }
interval_tick(t) ==
    /\ phase = "running"
    /\ ActorFree
    /\ t \in DOMAIN timers
    /\ timers[t].next <= now
    /\ LET i == captured(t)
           cb == cert_builders[i]
           r == needs_building(cb)
           hd == [NewHandler("tick", timers[t].job) EXCEPT !.checked[i] = 1, !.read = paths_read(cb)]
       IN /\ check' = Checked(i, cb)
          /\ phase' = IF r = "panic" THEN "panicked" ELSE phase
          /\ panic' = IF r = "panic"
                      THEN [h |-> "tick", job |-> i, why |-> "needs_building"]
                      ELSE panic
          /\ handler' = IF r = "true" THEN hd ELSE [hd EXCEPT !.result = r]
          /\ frames' = IF r = "true"
                       THEN Append(frames, [h |-> "tick", job |-> i,
                                            pc |-> "directory", dom |-> 1])
                       ELSE frames
          /\ timers' = IF r = "panic" THEN <<>>
                       ELSE [timers EXCEPT ![t].next = @ + timers[t].every]
    /\ UNCHANGED <<ssl_directory, nonce_directory, cert_builders, given, reloads, fs, nonce_files,
                   now, pass, needs_restart, stop_requested>>
    /\ UNCHANGED serve_vars

\* panics_on_err gone wrong: an Err of build_cert is dropped instead of unwrapped.
panics_on_err_never(ok) == FALSE

\* cert_built: build_cert(..).unwrap_or_else(|e| panic!(..))
panics_on_err(ok) == ~ok

\* One step of LetsEncrypt::build_cert in the frame k, and, after the last
\* one, the rest of cert_built and of its caller.  ok is the step's outcome:
\* every step ends in `?`, and cert_built panics on the Err.
build_cert(k, ok) ==
    /\ phase \in {"started", "running"}
    /\ k \in DOMAIN frames
    /\ LET fr == frames[k]
           cb == cert_builders[fr.job]
           failed == panics_on_err(ok)
           done == fr.pc = "save_private_key"
           ca == handler.ca \/ fr.pc \in CaSteps
           wrote == IF ~ok THEN {}
                    ELSE IF fr.pc = "save_signed_certificate" THEN {cb.cert_path[1]}
                    ELSE IF fr.pc = "save_private_key" THEN {cb.key_path[1]}
                    ELSE {}
           step == [job |-> fr.job, pc |-> fr.pc,
                    dom |-> IF fr.pc \in DomainSteps THEN fr.dom ELSE 0, ok |-> ok]
           hd == [handler EXCEPT !.ca = ca, !.written = @ \cup wrote,
                                 !.steps = Append(@, step)]
       IN /\ fs' = IF ~ok THEN fs
                   ELSE IF fr.pc = "save_signed_certificate"
                        THEN write(fs, cb.cert_path[1], "cert", now + IssuedValidity)
                   ELSE IF fr.pc = "save_private_key"
                        THEN write(fs, cb.key_path[1], "key", 0)
                   ELSE fs
          /\ nonce_files' = IF ok /\ fr.pc = "save_key_authorization"
                            THEN nonce_files \cup {cb.domains[fr.dom]}
                            ELSE nonce_files
          /\ IF failed
             THEN /\ phase' = "panicked"
                  /\ panic' = [h |-> fr.h, job |-> fr.job, why |-> fr.pc]
                  /\ frames' = <<>>
                  /\ timers' = <<>>
                  /\ handler' = [hd EXCEPT !.result = "failed"]
                  /\ UNCHANGED <<pass, needs_restart, stop_requested>>
             ELSE IF ~ok
             THEN \* the Err is dropped: cert_built returns as if nothing was due
                  /\ frames' = Remove(frames, k)
                  /\ handler' = [hd EXCEPT !.result = "failed"]
                  /\ pass' = IF fr.h = "started" THEN pass + 1 ELSE pass
                  /\ UNCHANGED <<phase, panic, timers, needs_restart, stop_requested>>
             ELSE IF ~done
             THEN /\ frames' = [frames EXCEPT ![k] = NextFrame(fr, cb)]
                  /\ handler' = hd
                  /\ UNCHANGED <<phase, panic, timers, pass, needs_restart, stop_requested>>
             ELSE IF fr.h = "started"
             THEN /\ frames' = Remove(frames, k)
                  /\ needs_restart' = TRUE
                  /\ pass' = pass + 1
                  /\ handler' = [hd EXCEPT !.issued = @ \cup {fr.job}]
                  /\ UNCHANGED <<phase, panic, timers, stop_requested>>
             ELSE /\ frames' = Remove(frames, k)
                  /\ stop_requested' = stop(stop_requested)
                  /\ handler' = [hd EXCEPT !.issued = @ \cup {fr.job}, !.stop = TRUE,
                                           !.restop = stop_requested, !.result = "built"]
                  /\ UNCHANGED <<phase, panic, timers, pass, needs_restart>>
    /\ UNCHANGED <<ssl_directory, nonce_directory, cert_builders, given, reloads, now, check>>
    /\ UNCHANGED serve_vars

\* The system arbiter handles the stop request: the actor and its timers go.
system_stop ==
    /\ phase = "running"
    /\ ActorFree
    /\ stop_requested
    /\ phase' = "stopped"
    /\ timers' = <<>>
    /\ UNCHANGED <<ssl_directory, nonce_directory, cert_builders, given, reloads, fs, nonce_files,
                   now, frames, pass, needs_restart, stop_requested, check, handler, panic>>
    /\ UNCHANGED serve_vars

Next ==
    \/ \E cert \in JobInputs : add_cert(cert)
    \/ \E path \in DirInputs : set_ssl_directory(path)
    \/ \E i \in 1..MaxJobs, kind \in {"key", "cert", "junk"}, not_after \in NotAfters :
          previous_run_files(i, kind, not_after)
    \/ start
    \/ clock
    \/ started_loop
    \/ started_end
    \/ \E t \in 1..MaxJobs : interval_tick(t)
    \/ \E k \in 1..MaxJobs, ok \in BOOLEAN : build_cert(k, ok)
    \/ system_stop

\* The engine from its construction to the end of the process
Spec == Init /\ [][Next]_vars

\* Explicit paths of every kind, for both stems
PathInputs == {None, Some(RelPath(<< <<"own">>, <<"file.pem">> >>)),
               Some(AbsPath(<< <<"etc">>, <<"file.pem">> >>))}

ConfigJobInputs ==
    {CertBuilder(8089, <<"example.com">>, None, TRUE, 2, 1, key_path, cert_path) :
        key_path \in PathInputs, cert_path \in PathInputs}
    \cup {CertBuilder(8090, <<"example.org", "example.net">>, None, TRUE, 1, 2, None, None)}

ConfigDirInputs == {RelPath(<< <<"ssl">> >>), AbsPath(<< <<"srv">>, <<"ssl">> >>)}

NextConfig ==
    \/ \E cert \in ConfigJobInputs : add_cert(cert)
    \/ \E path \in ConfigDirInputs : set_ssl_directory(path)
    \/ encryption_enabler_from_env
    \/ start

\* The configuration of the engine alone, up to the start of scheduling
SpecConfig == Init /\ [][NextConfig]_vars

\* ------------------------------------------------------------- the server
\* handle's path: nonce_dir, then push(".well-known"), push("acme-challenge"),
\* push(token)
challenge_path(nonce_dir, token) ==
    [abs |-> nonce_dir.abs,
     comps |-> nonce_dir.comps \o << <<".well-known">>, <<"acme-challenge">>, <<token>> >>]

\* The files http_challenge.save_key_authorization(self.nonce_directory) has
\* written; the token of a domain's challenge is named by the domain.
challenge_files == {challenge_path(nonce_directory, d) : d \in nonce_files}

\* NamedFile::open: Ok with the file, or Err when there is none at the path
NamedFile_open(path) ==
    IF path \in challenge_files
    THEN Some(CHOOSE d \in nonce_files : challenge_path(nonce_directory, d) = path)
    ELSE None

\* The tokens of the requests to /.well-known/acme-challenge/{token}
Tokens == {"example.com", "example.net", "no-such-token"}

\* The domains of the jobs
DomainInputs == UNION {{cert.domains[n] : n \in DOMAIN cert.domains} : cert \in JobInputs}

\* The addresses another process may hold when the server binds
BusyInputs == {{}, {8090}}

\* A key authorization an earlier build_cert of domain d of job i left in
\* the nonce directory
previous_run_nonce(i, d) ==
    /\ phase = "config"
    /\ i \in DOMAIN cert_builders
    /\ \E n \in DOMAIN cert_builders[i].domains : cert_builders[i].domains[n] = d
    /\ d \notin nonce_files
    /\ nonce_files' = nonce_files \cup {d}
    /\ UNCHANGED <<ssl_directory, nonce_directory, cert_builders, given, reloads, phase, fs,
                   now, frames, pass, needs_restart, timers, stop_requested, check,
                   handler, panic>>
    /\ UNCHANGED serve_vars

\* LetsEncrypt::register: app.data(NonceDir(..)).route(.., get().to(handle))
register ==
    /\ phase = "config"
    /\ route = None
    /\ route' = Some(nonce_directory)
    /\ UNCHANGED vars_but_serve
    /\ UNCHANGED <<response, listeners, attached>>

\* handle, the responder of the challenge route: NamedFile::open(..).unwrap()
handle(token) ==
    /\ route # None
    /\ LET file == NamedFile_open(challenge_path(route[1], token))
       IN response' = IF file = None
                      THEN [token |-> token, status |-> "panic", body |-> None]
                      ELSE [token |-> token, status |-> "ok", body |-> file]
    /\ UNCHANGED vars_but_serve
    /\ UNCHANGED <<route, listeners, attached>>

\* CertBuilder::ssl_builder: set_private_key_file(..).unwrap() and
\* set_certificate_chain_file(..).unwrap() on the two files
ssl_builder(cb) ==
    IF /\ exists(cb.key_path[1]) /\ content(cb.key_path[1]).kind = "key"
       /\ exists(cb.cert_path[1]) /\ content(cb.cert_path[1]).kind = "cert"
    THEN "ok" ELSE "panic"

\* HttpServer::bind_openssl: Err when the address is taken, by another
\* process or by a listener the server already has
bind_openssl(ls, addr, busy) ==
    IF addr \in busy \/ \E k \in DOMAIN ls : ls[k].addr = addr THEN "err" ELSE "ok"

\* The loop of attach_certificates_to from job i on, ls bound so far
RECURSIVE attach_from(_, _, _)
attach_from(i, ls, busy) ==
    IF i > Len(cert_builders) THEN [status |-> "ok", job |-> 0, listeners |-> ls]
    ELSE LET cb == cert_builders[i] IN
         IF ~key_and_cert_present(cb) THEN attach_from(i + 1, ls, busy)
         ELSE IF ssl_builder(cb) = "panic"
              THEN [status |-> "panic", job |-> i, listeners |-> <<>>]
         ELSE IF bind_openssl(ls, cb.addrs[1], busy) = "err"
              THEN [status |-> "err", job |-> i, listeners |-> <<>>]
         ELSE attach_from(i + 1, Append(ls, [job |-> i, addr |-> cb.addrs[1]]), busy)

\* LetsEncrypt::attach_certificates_to, on a server without listeners
attach_certificates_to(busy) ==
    /\ phase = "config"
    /\ attached = NotAttached
    /\ LET r == attach_from(1, <<>>, busy)
       IN /\ attached' = [status |-> r.status, job |-> r.job,
                          jobs |-> Len(cert_builders), at |-> fs]
          /\ listeners' = r.listeners
    /\ UNCHANGED vars_but_serve
    /\ UNCHANGED <<route, response>>

NextServe ==
    \/ \E cert \in JobInputs : add_cert(cert)
    \/ \E i \in 1..MaxJobs, kind \in {"key", "cert", "junk"}, not_after \in NotAfters :
          previous_run_files(i, kind, not_after)
    \/ \E i \in 1..MaxJobs, d \in DomainInputs : previous_run_nonce(i, d)
    \/ register
    \/ \E token \in Tokens : handle(token)
    \/ \E busy \in BusyInputs : attach_certificates_to(busy)

\* The engine's two services to the HTTP server: the challenge route and the
\* TLS listeners
SpecServe == Init /\ [][NextServe]_vars

\* ------------------------------------------------------------------ claims
StartupPassOver == handler.h = "started" /\ handler.result = "done"

BuildSteps == CaSteps \cup {"get_http_challenge", "save_key_authorization",
                            "save_signed_certificate", "save_private_key"}

\* C1: when the start-up pass is over, every registered job's renewal check
\* has been evaluated exactly once in it, also when an earlier job of the
\* list issued a certificate.
C1_every_job_checked_once ==
    StartupPassOver => \A i \in DOMAIN cert_builders : handler.checked[i] = 1

\* C2: when both files are present and the certificate parses, needs_building
\* returns true exactly when not_after - now < renew_within and false
\* otherwise, also when not_after is at or before now.
C2_true_iff_remaining_below_window ==
    check.parsed =>
        check.result = (IF check.remaining < check.window THEN "true" ELSE "false")

\* C3: when the issuance made in a timer callback fails at some step, the
\* actor keeps running and the timer of every job stays armed.
C3_failure_confined_to_attempt ==
    (panic.h = "tick" /\ panic.why \in BuildSteps) =>
        /\ phase = "running"
        /\ \A i \in DOMAIN cert_builders : \E t \in DOMAIN timers : timers[t].job = i

IssuedPair(cb) ==
    /\ exists(cb.key_path[1]) /\ content(cb.key_path[1]).kind = "key"
    /\ exists(cb.cert_path[1]) /\ content(cb.cert_path[1]).kind = "cert"

\* C4: once a job has issued a certificate in the start-up pass, the pass
\* does not fail, no timer is armed in this process, the restart signal is
\* raised when the pass ends, and the issuing job's two files exist.
C4_startup_issue_means_restart ==
    (handler.h = "started" /\ handler.issued # {}) =>
        /\ phase # "panicked"
        /\ timers = <<>>
        /\ (phase # "started" => stop_requested /\ handler.stop)
        /\ \A i \in handler.issued : IssuedPair(cert_builders[i])

\* Scenario A: ssl_directory "ssl", one job for example.com, no files before
C4_witness ==
    /\ phase = "running" /\ StartupPassOver /\ stop_requested
    /\ ssl_directory = RelPath(<< <<"ssl">> >>)
    /\ Len(cert_builders) = 1
    /\ given[1] = [cert |-> example_prod, dir |-> ssl_directory, again |-> FALSE]
    /\ handler.issued = {1}
    /\ ~check.present
    /\ handler.written =
         {RelPath(<< <<"ssl">>, <<"example.com", "_", "key", ".pem">> >>),
          RelPath(<< <<"ssl">>, <<"example.com", "_", "cert", ".pem">> >>)}

\* C5: when the start-up pass ends without any job having needed issuance,
\* it has contacted no CA, written no file and not raised the restart signal,
\* and as long as the actor runs there is exactly one timer per registered
\* job, with that job's own check_every.
C5_no_issue_means_timers ==
    /\ (StartupPassOver /\ ~needs_restart) =>
          /\ ~handler.ca
          /\ handler.written = {}
          /\ ~handler.stop
          /\ ~stop_requested
          /\ \A i \in DOMAIN cert_builders : handler.checked[i] = 1
    /\ (phase = "running" /\ ~needs_restart) =>
          /\ Len(timers) = Len(cert_builders)
          /\ \A i \in DOMAIN cert_builders :
                /\ timers[i].job = i
                /\ timers[i].every = cert_builders[i].check_every

C5_witness ==
    /\ phase = "running" /\ StartupPassOver /\ ~needs_restart
    /\ Len(cert_builders) = 2
    /\ cert_builders[1].check_every # cert_builders[2].check_every
    /\ \A i \in DOMAIN cert_builders : key_and_cert_present(cert_builders[i])

JobPaths(i) == {cert_builders[i].key_path[1], cert_builders[i].cert_path[1]}

\* C6: a firing of job j's timer runs the check of job j alone and touches
\* no file but job j's; when the check is false the callback contacts no CA
\* and raises no restart signal; when it is true and issuance succeeds, both
\* files of job j have been written and the restart signal is raised when the
\* callback ends.
C6_tick_checks_its_job_alone ==
    handler.h = "tick" =>
        /\ handler.job \in DOMAIN cert_builders
        /\ \A i \in DOMAIN cert_builders :
              handler.checked[i] = (IF i = handler.job THEN 1 ELSE 0)
        /\ handler.read \cup handler.written \subseteq JobPaths(handler.job)
        /\ handler.result = "false" =>
              ~handler.ca /\ ~handler.stop /\ handler.written = {}
        /\ handler.result = "built" =>
              /\ handler.written = JobPaths(handler.job)
              /\ IssuedPair(cert_builders[handler.job])
              /\ handler.stop /\ stop_requested

C6_witness ==
    /\ handler.h = "tick" /\ handler.result = "built"
    /\ Len(cert_builders) = 2
    /\ handler.job = 2
    /\ JobPaths(1) \cap JobPaths(2) = {}

\* C7: at most one build_cert is in flight at any time, and while the one of
\* a timer callback is in flight no other callback has begun.
C7_one_issuance_in_flight ==
    /\ Len(frames) <= 1
    /\ \A k \in DOMAIN frames :
          frames[k].h = "tick" =>
              /\ handler.h = "tick"
              /\ handler.job = frames[k].job
              /\ handler.result = ""

\* Two ticks of the job are overdue while its issuance is in flight
C7_witness ==
    \E k \in DOMAIN frames, t \in DOMAIN timers :
        /\ frames[k].h = "tick"
        /\ timers[t].job = frames[k].job
        /\ timers[t].next + timers[t].every <= now

Under(dir, path) ==
    /\ path.abs = dir.abs
    /\ Len(dir.comps) <= Len(path.comps)
    /\ SubSeq(path.comps, 1, Len(dir.comps)) = dir.comps

NotGivenAbsolute(pathp) == pathp = None \/ ~is_absolute(pathp[1])

\* C8: when scheduling begins, every registered job's key or certificate path
\* that was not given as an absolute path lies under the SSL directory the
\* engine then holds.
C8_resolved_under_final_directory ==
    phase # "config" =>
        \A i \in DOMAIN cert_builders :
            /\ NotGivenAbsolute(given[i].cert.key_path) =>
                  Under(ssl_directory, cert_builders[i].key_path[1])
            /\ NotGivenAbsolute(given[i].cert.cert_path) =>
                  Under(ssl_directory, cert_builders[i].cert_path[1])

\* C9 as claimed: whenever build_cert runs for a job, the job's key path and
\* certificate path are absolute.
C9_absolute_when_used ==
    \A k \in DOMAIN frames :
        /\ is_absolute(cert_builders[frames[k].job].key_path[1])
        /\ is_absolute(cert_builders[frames[k].job].cert_path[1])

AbsoluteIff(pathp, g_path, dir) ==
    /\ pathp # None
    /\ is_absolute(pathp[1]) <=> (is_absolute(dir) \/ ~NotGivenAbsolute(g_path))

\* C9 as amended: every registered job's key path and certificate path are
\* set, and each is absolute exactly when its explicit path was absolute or
\* the SSL directory held at add_cert was absolute.
C9_absolute_iff_directory_or_explicit ==
    \A i \in DOMAIN cert_builders :
        /\ AbsoluteIff(cert_builders[i].key_path, given[i].cert.key_path, given[i].dir)
        /\ AbsoluteIff(cert_builders[i].cert_path, given[i].cert.cert_path, given[i].dir)

\* build_cert is about to write the files of a job registered under "/ssl"
\* with default paths, and of one registered under "ssl"
C9_witness ==
    /\ Len(cert_builders) = 2
    /\ given[1].dir = default_ssl_directory /\ given[1].cert.key_path = None
    /\ is_absolute(cert_builders[1].key_path[1])
    /\ ~is_absolute(given[2].dir)
    /\ \E k \in DOMAIN frames :
          frames[k].job = 1 /\ frames[k].pc = "save_signed_certificate"

\* C10: handing a job that add_cert has resolved to add_cert again leaves its
\* key path and certificate path as they were.
C10_resolution_idempotent ==
    \A i \in DOMAIN cert_builders :
        given[i].again =>
            /\ cert_builders[i].key_path = given[i].cert.key_path
            /\ cert_builders[i].cert_path = given[i].cert.cert_path

\* What resolve is to return, written out: the directory's components followed
\* by the default file name or by the relative explicit path's components, or
\* the absolute explicit path as it is.
Resolved(g_path, stem, dir, domains) ==
    IF g_path = None
    THEN [abs |-> dir.abs,
          comps |-> Append(dir.comps, <<domains[1], "_", stem, ".pem">>)]
    ELSE IF g_path[1].abs
         THEN g_path[1]
         ELSE [abs |-> dir.abs, comps |-> dir.comps \o g_path[1].comps]

\* C11: for both stems, every SSL directory and every non-empty domain list,
\* the path a job is registered with is the directory joined with
\* "<domains[0]>_<stem>.pem" when no explicit path was given, the explicit path
\* unchanged when it is absolute, and the directory joined with the explicit
\* path when it is relative.
C11_resolve_by_cases ==
    \A i \in DOMAIN cert_builders :
        /\ cert_builders[i].key_path =
              Some(Resolved(given[i].cert.key_path, "key", given[i].dir,
                            given[i].cert.domains))
        /\ cert_builders[i].cert_path =
              Some(Resolved(given[i].cert.cert_path, "cert", given[i].dir,
                            given[i].cert.domains))

\* One engine holds a default path, an absolute explicit one and a relative
\* explicit one, resolved against two different directories
C11_witness ==
    /\ Len(cert_builders) = 2
    /\ given[1].dir # given[2].dir
    /\ given[1].cert.key_path = None
    /\ given[1].cert.cert_path # None /\ is_absolute(given[1].cert.cert_path[1])
    /\ given[2].cert.key_path # None /\ ~is_absolute(given[2].cert.key_path[1])
    /\ given[2].cert.domains = <<"example.com">>
    /\ ~given[1].again /\ ~given[2].again

Unparseable == check.present /\ ~check.parsed

\* C12 as claimed: a check that finds a certificate file it cannot parse does
\* not report that no renewal is needed, and the job is treated as needing
\* renewal, so that cert_built goes on to the issuance.
C12_unparseable_is_renewed ==
    Unparseable => check.result = "true" /\ phase # "panicked"

\* C12 as amended: a check that finds a certificate file it cannot parse does
\* not report that no renewal is needed: it panics, the actor is gone, and no
\* issuance is attempted for the job in that check cycle.
C12_unparseable_is_fatal ==
    Unparseable =>
        /\ check.result = "panic"
        /\ phase = "panicked"
        /\ panic.why = "needs_building" /\ panic.job = check.job
        /\ frames = <<>>
        /\ ~handler.ca /\ handler.written = {} /\ handler.issued = {}

\* The unparseable file is met by the second job's check at startup
C12_witness ==
    /\ Unparseable
    /\ panic.h = "started" /\ check.job = 2
    /\ content(cert_builders[check.job].cert_path[1]).kind = "junk"

\* C13: every request to the challenge route is answered: with success and
\* the file's bytes when the token's file is in the nonce directory, with a
\* not-found or error response otherwise; the responder does not crash.
C13_answers_every_request ==
    response.status # "none" =>
        \/ /\ response.status = "ok"
           /\ response.body # None
           /\ challenge_path(nonce_directory, response.body[1])
                 = challenge_path(route[1], response.token)
        \/ response.status \in {"not_found", "error"}

PresentAt(files, cb) ==
    /\ \E f \in files : f.path = cb.key_path[1]
    /\ \E f \in files : f.path = cb.cert_path[1]

PresentJobs == {i \in 1..attached.jobs : PresentAt(attached.at, cert_builders[i])}

\* C14: when attach_certificates_to returns Ok, the server's listeners are
\* those of exactly the jobs whose key file and certificate file were both on
\* disk at the call, in the jobs' order, each on the job's first address,
\* whatever the certificate's remaining validity; a job with a missing file
\* is never the one the call fails at.
C14_binds_exactly_the_present ==
    /\ attached.status = "ok" =>
          /\ Len(listeners) = Cardinality(PresentJobs)
          /\ \A k \in DOMAIN listeners :
                /\ listeners[k].job \in PresentJobs
                /\ listeners[k].addr = cert_builders[listeners[k].job].addrs[1]
                /\ \A m \in DOMAIN listeners : k < m => listeners[k].job < listeners[m].job
    /\ attached.status \in {"err", "panic"} =>
          /\ attached.job \in PresentJobs
          /\ listeners = <<>>

\* The first job lacks its key and is skipped, the second has a key and a
\* certificate that is past its not_after and is bound
C14_witness ==
    /\ attached.status = "ok"
    /\ attached.jobs = 2
    /\ PresentJobs = {2}
    /\ \E f \in attached.at : f.path = cert_builders[1].cert_path[1]
    /\ \E f \in attached.at :
          f.path = cert_builders[2].cert_path[1] /\ f.kind = "cert" /\ f.not_after < now
    /\ listeners = << [job |-> 2, addr |-> 8090] >>

\* C15: when the issuance of a job fails in the start-up pass, the pass ends
\* in a panic at that step: no timer is armed, no issuance is left running,
\* and from then on the actor never leaves the panic, so that it never
\* schedules anything.
C15_startup_failure_is_fatal ==
    /\ []((handler.h = "started" /\ handler.result = "failed") =>
            /\ phase = "panicked"
            /\ panic.h = "started" /\ panic.why \in BuildSteps
            /\ timers = <<>> /\ frames = <<>>
            /\ ~stop_requested)
    /\ [][phase = "panicked" => phase' = "panicked" /\ timers' = <<>>]_vars

\* The second job's issuance fails at signing after the first job's check
\* found nothing to do
C15_witness ==
    /\ handler.h = "started" /\ handler.result = "failed"
    /\ panic.job = 2 /\ panic.why = "sign_certificate"
    /\ handler.checked[1] = 1

\* C16: when an issuance has written the new certificate and stops before it
\* has written the new private key, a renewal check of the job on the disk it
\* leaves reports that renewal is needed, also when an older key file is at
\* the key path.
C16_half_written_pair_is_renewed ==
    panic.why = "save_private_key" =>
        needs_building(cert_builders[panic.job]) = "true"

PerDomain == <<"authorization", "get_http_challenge", "save_key_authorization", "validate">>

Closing == <<"sign_certificate", "save_signed_certificate", "save_private_key">>

\* The steps of an issuance for n domains, in the order the CA requires
ExpectedSteps(n) ==
    [k \in 1..(4 * n + 5) |->
        IF k = 1 THEN [pc |-> "directory", dom |-> 0]
        ELSE IF k = 2 THEN [pc |-> "account_registration", dom |-> 0]
        ELSE IF k <= 4 * n + 2
             THEN [pc |-> PerDomain[((k - 3) % 4) + 1], dom |-> ((k - 3) \div 4) + 1]
        ELSE [pc |-> Closing[k - (4 * n + 2)], dom |-> 0]]

UpToSigning == BuildSteps \ {"save_signed_certificate", "save_private_key"}

\* C17: the steps an issuance has run are a beginning of the sequence
\* directory, registration, then authorization, challenge, proof and
\* validation for each domain in configured order, then signing and the two
\* writes; none follows a step that failed; signing comes only after every
\* domain's validation succeeded; and when a step up to and including
\* signing fails, the issuance has written neither file.
C17_failure_aborts_at_its_step ==
    handler.steps # <<>> =>
        LET st == handler.steps
            cb == cert_builders[st[1].job]
            n == Len(cb.domains)
            exp == ExpectedSteps(n)
        IN /\ Len(st) <= Len(exp)
           /\ \A k \in DOMAIN st :
                 /\ st[k].job = st[1].job
                 /\ st[k].pc = exp[k].pc /\ st[k].dom = exp[k].dom
                 /\ k < Len(st) => st[k].ok
                 /\ st[k].pc = "sign_certificate" =>
                       \A d \in 1..n : \E j \in 1..(k - 1) :
                           st[j].pc = "validate" /\ st[j].dom = d /\ st[j].ok
                 /\ (~st[k].ok /\ st[k].pc \in UpToSigning) =>
                       /\ handler.written = {}
                       /\ \A j \in DOMAIN st : st[j].pc \notin {"save_signed_certificate",
                                                               "save_private_key"}
                       /\ frames = <<>>

\* The validation of the second of two domains is refused
C17_witness ==
    /\ handler.steps # <<>>
    /\ LET last == handler.steps[Len(handler.steps)]
       IN /\ ~last.ok /\ last.pc = "validate" /\ last.dom = 2
          /\ Len(cert_builders[last.job].domains) = 2
          /\ exists(cert_builders[last.job].cert_path[1])

\* C18: validation of a domain is requested only right after the key
\* authorization of that same domain has been saved successfully, so that the
\* proof is in the nonce directory whenever validation is requested or about
\* to be.
C18_proof_before_validation ==
    /\ \A k \in DOMAIN handler.steps :
          handler.steps[k].pc = "validate" =>
              /\ k > 1
              /\ handler.steps[k - 1].pc = "save_key_authorization"
              /\ handler.steps[k - 1].dom = handler.steps[k].dom
              /\ handler.steps[k - 1].ok
              /\ cert_builders[handler.steps[k].job].domains[handler.steps[k].dom]
                    \in nonce_files
    /\ \A k \in DOMAIN frames :
          frames[k].pc = "validate" =>
              cert_builders[frames[k].job].domains[frames[k].dom] \in nonce_files

\* Both domains of a job have been validated, the second one's proof written
\* after the first one's validation
C18_witness ==
    /\ Len(handler.steps) >= 10
    /\ handler.steps[6].pc = "validate" /\ handler.steps[6].dom = 1
    /\ handler.steps[9].pc = "save_key_authorization" /\ handler.steps[9].dom = 2
    /\ handler.steps[10].pc = "validate" /\ handler.steps[10].dom = 2
    /\ nonce_files = {"example.org", "example.net"}

\* C19: while the issuance of one job's timer callback is in flight, waiting
\* for the CA, the callback of every other job's timer that is due can run:
\* a CA that never answers does not keep the other jobs' checks from firing.
C19_stall_does_not_starve ==
    \A k \in DOMAIN frames, t \in DOMAIN timers :
        (/\ frames[k].h = "tick"
         /\ frames[k].pc \in CaSteps
         /\ timers[t].job # frames[k].job
         /\ timers[t].next <= now)
            => ENABLED interval_tick(t)

\* C20: a stop() called while a stop request is already pending leaves the
\* request pending and ends its callback like any other successful issuance,
\* without a panic; a pending request is never taken back, whichever job's
\* tick comes first.
C20_restart_signal_idempotent ==
    /\ [](handler.restop =>
            /\ stop_requested
            /\ handler.stop /\ handler.result = "built"
            /\ panic = NoPanic
            /\ phase \in {"running", "stopped"})
    /\ [][stop_requested => stop_requested']_vars

\* The first job's tick raises the signal again after the second job's tick
\* has raised it
C20_witness ==
    /\ handler.restop
    /\ handler.h = "tick" /\ handler.job = 1
    /\ Len(cert_builders) = 2
    /\ cert_builders[1] # cert_builders[2]
    /\ IssuedPair(cert_builders[2])
    /\ phase = "running"
====
